---- MODULE Spec2Model ----
(***************************************************************************)
(* A model of listagent.py: sliceagent (a live, strided view of a list or  *)
(* of another agent), its in-place algorithms (reverse, Shell sort), and   *)
(* next_permutation / partial_sort with the copied heapq routines.         *)
(*                                                                         *)
(* The Python list is the sequence x (physical index p is x[p+1]).  Agents *)
(* are kept in the sequence agents; an agent's origin is 0 for the list x  *)
(* and k for agents[k].  The closure self.translate is the pair            *)
(* (start, step) captured by the last align().                             *)
(***************************************************************************)
EXTENDS Integers, Sequences, FiniteSets, Bags, TLC

VARIABLES x, agents, last, count

vars == <<x, agents, last, count>>

----------------------------------------------------------------------------
(* Bounds of the model. *)

AlignLen == 4
AlignIdx == 5
AlignStep == 3
ItemLen == 3
ItemVal == 1
ItemIdx == 1
ItemStep == 2
AssignLen == 3
AssignVal == 1
AssignAgents == 3
ShareLen == 3
ShareIdx == 1
SortLen == 5
SortVal == 2
PermLen == 5
PartLen == 5
PartVal == 2
PartStep == 2

----------------------------------------------------------------------------
(* Python values. *)

None == <<>>

Some(v) == <<v>>

Opt(S) == {None} \cup {Some(v) : v \in S}

OK == "ok"

IndexError == "IndexError"

LenError == "ValueError: __len__() should return >= 0"

LengthMismatch == "ValueError: length mismatch"

Slice(a, b, c) == [start |-> a, stop |-> b, step |-> c]

FullSlice == Slice(None, None, None)

Abs(i) == IF i < 0 THEN -i ELSE i

\* int(a / float(b)): the quotient truncated toward zero.
TruncDiv(a, b) ==
    LET q == Abs(a) \div Abs(b)
    IN  IF (a < 0) = (b < 0) THEN q ELSE -q

\* One bound of slice.indices(): negative values count from the end, then
\* the value is clamped to [lower, upper].
ClampIndex(v, L, lower, upper) ==
    IF v < 0
    THEN IF v + L < lower THEN lower ELSE v + L
    ELSE IF v > upper THEN upper ELSE v

\* slice.indices(L)
SliceIndices(s, L) ==
    LET step  == IF s.step = None THEN 1 ELSE s.step[1]
        lower == IF step < 0 THEN -1 ELSE 0
        upper == IF step < 0 THEN L - 1 ELSE L
        start == IF s.start = None
                 THEN (IF step < 0 THEN upper ELSE lower)
                 ELSE ClampIndex(s.start[1], L, lower, upper)
        stop  == IF s.stop = None
                 THEN (IF step < 0 THEN lower ELSE upper)
                 ELSE ClampIndex(s.stop[1], L, lower, upper)
    IN  [start |-> start, stop |-> stop, step |-> step]

\* The length align() computes from the normalized triple.
AlignLength(start, stop, step) ==
    IF step > 0
    THEN TruncDiv(stop - start - 1, step) + 1
    ELSE TruncDiv(stop - start, step)

\* The agent align() leaves for a slice over an origin of length L.
Aligned(origin, s, L) ==
    LET t == SliceIndices(s, L)
    IN  [origin    |-> origin,
         slice     |-> s,
         n         |-> AlignLength(t.start, t.stop, t.step),
         translate |-> [start |-> t.start, step |-> t.step]]

\* self.translate(i)
Translate(a, i) == a.translate.start + i * a.translate.step

\* The heap the operations work on: the list, the agents, the exception
\* raised so far (OK when none) and the value returned.
State(xs, ags, exc) == [x |-> xs, agents |-> ags, exc |-> exc, ret |-> None]

\* raise exc
Raise(st, exc) == [st EXCEPT !.exc = exc]

\* return v
Return(st, v) == [st EXCEPT !.ret = v]

\* len(o): of the list, or of an agent (the interpreter rejects a negative
\* __len__).
LenOf(st, o) ==
    IF o = 0 THEN [exc |-> OK, val |-> Len(st.x)]
    ELSE IF st.agents[o].n < 0 THEN [exc |-> LenError, val |-> 0]
    ELSE [exc |-> OK, val |-> st.agents[o].n]

\* sliceagent.align
Align(st, k) ==
    LET a == st.agents[k]
        L == LenOf(st, a.origin)
    IN  IF L.exc # OK THEN Raise(st, L.exc)
        ELSE [st EXCEPT !.agents[k] = Aligned(a.origin, a.slice, L.val)]

\* sliceagent.__init__: a new agent, appended to the agents; returns its
\* index.
NewAgent(st, origin, s) ==
    LET k  == Len(st.agents) + 1
        a0 == [origin |-> origin, slice |-> s, n |-> 0,
               translate |-> [start |-> 0, step |-> 1]]
    IN  Return(Align([st EXCEPT !.agents = Append(st.agents, a0)], k), k)

----------------------------------------------------------------------------
(* Sequencing.  An operation takes the heap and gives the heap it leaves;  *)
(* an expression gives [exc, val].  Each intermediate result is bound once *)
(* and the rest of the code runs on it, unless it raised.                  *)

Value(v) == [exc |-> OK, val |-> v]

Failure(exc) == [exc |-> exc, val |-> 0]

\* The rest F of the code, run on the result of e.
Bind(e, F(_)) == CHOOSE r \in {F(v) : v \in {e}} : TRUE

\* Statement e, then the statements F on the heap it leaves.
Then(e, F(_)) ==
    CHOOSE r \in {IF s.exc # OK THEN s ELSE F(s) : s \in {e}} : TRUE

\* Expression e evaluated in heap st, then the statements F on its value.
With(st, e, F(_)) ==
    CHOOSE r \in {IF v.exc # OK THEN Raise(st, v.exc) ELSE F(v.val) : v \in {e}} : TRUE

\* Expression e, then the expression F of its value.
Via(e, F(_)) ==
    CHOOSE r \in {IF v.exc # OK THEN Failure(v.exc) ELSE F(v.val) : v \in {e}} : TRUE

----------------------------------------------------------------------------
(* Element access, through a list index or through an agent.               *)

\* A list index as the list resolves it: negative values count from the end.
ListPos(xs, p) == IF p < 0 THEN p + Len(xs) ELSE p

InList(xs, q) == 0 <= q /\ q < Len(xs)

RemoveAt(xs, q) == SubSeq(xs, 1, q) \o SubSeq(xs, q + 2, Len(xs))

\* list.insert(p, v): the position is clamped, never rejected.
ListInsert(xs, p, v) ==
    LET q0 == ListPos(xs, p)
        q  == IF q0 < 0 THEN 0 ELSE IF q0 > Len(xs) THEN Len(xs) ELSE q0
    IN  SubSeq(xs, 1, q) \o <<v>> \o SubSeq(xs, q + 1, Len(xs))

RECURSIVE GetItem(_, _, _)
\* o[key]: list indexing, or sliceagent.__getitem__ with an int key.
GetItem(st, o, key) ==
    IF o = 0
    THEN LET q == ListPos(st.x, key)
         IN  IF InList(st.x, q) THEN Value(st.x[q + 1]) ELSE Failure(IndexError)
    ELSE LET a == st.agents[o]
             n == a.n
         IN  IF n < 0 THEN Failure(LenError)
             ELSE IF key >= n THEN Failure(IndexError)
             ELSE IF key < 0 /\ key < -n THEN Failure(IndexError)
             ELSE GetItem(st, a.origin,
                          Translate(a, IF key < 0 THEN key % n ELSE key))

RECURSIVE SetItem(_, _, _, _)
\* o[key] = v: list assignment, or sliceagent.__setitem__ with an int key.
SetItem(st, o, key, v) ==
    IF o = 0
    THEN LET q == ListPos(st.x, key)
         IN  IF InList(st.x, q) THEN [st EXCEPT !.x[q + 1] = v]
             ELSE Raise(st, IndexError)
    ELSE SetItem(st, st.agents[o].origin, Translate(st.agents[o], key), v)

RECURSIVE DelItemNoAlign(_, _, _)
\* del o[key] that forgets the align() after the deletion.
DelItemNoAlign(st, o, key) ==
    IF o = 0
    THEN LET q == ListPos(st.x, key)
         IN  IF InList(st.x, q) THEN [st EXCEPT !.x = RemoveAt(st.x, q)]
             ELSE Raise(st, IndexError)
    ELSE DelItemNoAlign(st, st.agents[o].origin, Translate(st.agents[o], key))

RECURSIVE DelItem(_, _, _)
\* del o[key]: list deletion, or sliceagent.__delitem__ with an int key.
DelItem(st, o, key) ==
    IF o = 0
    THEN LET q == ListPos(st.x, key)
         IN  IF InList(st.x, q) THEN [st EXCEPT !.x = RemoveAt(st.x, q)]
             ELSE Raise(st, IndexError)
    ELSE Then(DelItem(st, st.agents[o].origin, Translate(st.agents[o], key)),
              LAMBDA s1 : Align(s1, o))

RECURSIVE InsertItem(_, _, _, _)
\* o.insert(i, v): list.insert, or sliceagent.insert.
InsertItem(st, o, i, v) ==
    IF o = 0
    THEN [st EXCEPT !.x = ListInsert(st.x, i, v)]
    ELSE Then(InsertItem(st, st.agents[o].origin, Translate(st.agents[o], i), v),
              LAMBDA s1 : Align(s1, o))

\* list(agent): the items sliceagent.__iter__ yields, x[t(i)] for i in
\* range(len(self)), or the first exception raised on the way.
Iterate(st, k) ==
    LET n == LenOf(st, k)
    IN  IF n.exc # OK THEN Failure(n.exc)
        ELSE LET item(i) == GetItem(st, st.agents[k].origin,
                                    Translate(st.agents[k], i - 1))
                 bad == {i \in 1..n.val : item(i).exc # OK}
             IN  IF bad # {}
                 THEN Failure(item(CHOOSE i \in bad : \A j \in bad : i <= j).exc)
                 ELSE Value([i \in 1..n.val |-> item(i).val])

StopIteration == "StopIteration"

\* sliceagent.__getitem__ with a slice key: the agent itself for the full
\* slice, a new agent over the same origin when this agent's own slice is
\* the full one, and otherwise a new agent over this agent.  Returns the
\* index of the agent.
GetSlice(st, k, key) ==
    IF key = FullSlice THEN Return(st, k)
    ELSE IF st.agents[k].slice = FullSlice
    THEN NewAgent(st, st.agents[k].origin, key)
    ELSE NewAgent(st, k, key)

\* next(v) for the i-th time, v being iter(value): value is the list items
\* (src = 0) or the agent src, whose generator reads its origin only now.
NextValue(st, src, items, i) ==
    IF src = 0
    THEN IF i < Len(items) THEN Value(items[i + 1]) ELSE Failure(StopIteration)
    ELSE Via(LenOf(st, src), LAMBDA n :
             IF i >= n THEN Failure(StopIteration)
             ELSE GetItem(st, st.agents[src].origin, Translate(st.agents[src], i)))

\* except StopIteration: raise ValueError("length mismatch")
Reraise(exc) == IF exc = StopIteration THEN LengthMismatch ELSE exc

RECURSIVE SetSliceFrom(_, _, _, _, _, _)
\* The loop of __setitem__ with a slice key, from logical position i on.
SetSliceFrom(st, k, src, items, i, n) ==
    IF i >= n THEN st
    ELSE Bind(NextValue(st, src, items, i), LAMBDA v :
         IF v.exc # OK THEN Raise(st, Reraise(v.exc))
         ELSE Then(SetItem(st, st.agents[k].origin,
                           Translate(st.agents[k], i), v.val),
                   LAMBDA s1 : SetSliceFrom(s1, k, src, items, i + 1, n)))

\* sliceagent.__setitem__ with a slice key (the key itself is never read).
SetSlice(st, k, key, src, items) ==
    With(st, LenOf(st, k), LAMBDA n : SetSliceFrom(st, k, src, items, 0, n))

----------------------------------------------------------------------------
(* The in-place algorithms of an agent.                                    *)

RECURSIVE ReverseLoop(_, _, _, _)
\* The loop of reverse(): x[t(i)], x[t(j)] = x[t(j)], x[t(i)] while i <= j.
ReverseLoop(st, k, i, j) ==
    IF i > j THEN st
    ELSE With(st, GetItem(st, st.agents[k].origin, Translate(st.agents[k], j)),
              LAMBDA vj :
         With(st, GetItem(st, st.agents[k].origin, Translate(st.agents[k], i)),
              LAMBDA vi :
         Then(SetItem(st, st.agents[k].origin, Translate(st.agents[k], i), vj),
              LAMBDA s1 :
         Then(SetItem(s1, s1.agents[k].origin, Translate(s1.agents[k], j), vi),
              LAMBDA s2 : ReverseLoop(s2, k, i + 1, j - 1)))))

\* sliceagent.reverse
Reverse(st, k) ==
    With(st, LenOf(st, k), LAMBDA n : ReverseLoop(st, k, 0, n - 1))

\* t[i], t being the list map(self.translate, range(n)): a negative i counts
\* from the end of t.
Translated(a, n, i) == Translate(a, IF i < 0 THEN i + n ELSE i)

RECURSIVE ShiftLoop(_, _, _, _, _, _)
\* The inner while loop of sort() and the x[i] = tmp that follows it.
ShiftLoop(st, k, n, gap, kk, tmp) ==
    IF kk >= gap
    THEN With(st, GetItem(st, st.agents[k].origin,
                          Translated(st.agents[k], n, kk - gap)),
              LAMBDA xj :
              IF xj > tmp
              THEN Then(SetItem(st, st.agents[k].origin,
                                Translated(st.agents[k], n, kk), xj),
                        LAMBDA s1 : ShiftLoop(s1, k, n, gap, kk - gap, tmp))
              ELSE SetItem(st, st.agents[k].origin,
                           Translated(st.agents[k], n, kk), tmp))
    ELSE SetItem(st, st.agents[k].origin, Translated(st.agents[k], n, kk), tmp)

RECURSIVE GapPass(_, _, _, _, _)
\* for k in range(n): one pass of sort() with one gap, from k = kk on.
GapPass(st, k, n, gap, kk) ==
    IF kk >= n THEN st
    ELSE With(st, GetItem(st, st.agents[k].origin,
                          Translated(st.agents[k], n, kk)),
              LAMBDA tmp :
         Then(ShiftLoop(st, k, n, gap, kk, tmp),
              LAMBDA s1 : GapPass(s1, k, n, gap, kk + 1)))

\* The gap sequence without its special case for 2: after 2 comes 0.
NextGapWithoutOne(gap) == TruncDiv(gap * 5, 11)

\* gap = 1 if gap == 2 else int(gap * 5.0 / 11)
NextGap(gap) == IF gap = 2 THEN 1 ELSE TruncDiv(gap * 5, 11)

RECURSIVE SortGaps(_, _, _, _)
\* while gap: the passes of sort() from the given gap on.
SortGaps(st, k, n, gap) ==
    IF gap = 0 THEN st
    ELSE Then(GapPass(st, k, n, gap, 0),
              LAMBDA s1 : SortGaps(s1, k, n, NextGap(gap)))

\* sliceagent.sort
Sort(st, k) ==
    With(st, LenOf(st, k), LAMBDA n : SortGaps(st, k, n, n \div 2))

----------------------------------------------------------------------------
(* next_permutation, partial_sort and the heap routines.  The sequence a   *)
(* (or heap) they work on is the list (0) or an agent.                     *)

RECURSIVE ScanAscent(_, _, _)
\* while i >= 0 and a[i+1] <= a[i]: i -= 1
ScanAscent(st, a, i) ==
    IF i < 0 THEN Value(i)
    ELSE Via(GetItem(st, a, i + 1), LAMBDA hi :
         Via(GetItem(st, a, i), LAMBDA lo :
             IF hi <= lo THEN ScanAscent(st, a, i - 1) ELSE Value(i)))

RECURSIVE ScanGreater(_, _, _, _)
\* while a[j] <= a[i]: j -= 1
ScanGreater(st, a, i, j) ==
    Via(GetItem(st, a, j), LAMBDA aj :
    Via(GetItem(st, a, i), LAMBDA ai :
        IF aj <= ai THEN ScanGreater(st, a, i, j - 1) ELSE Value(j)))

\* a[i], a[j] = a[j], a[i]
Swap(st, a, i, j) ==
    With(st, GetItem(st, a, j), LAMBDA aj :
    With(st, GetItem(st, a, i), LAMBDA ai :
    Then(SetItem(st, a, i, aj), LAMBDA s1 : SetItem(s1, a, j, ai))))

\* The agents made for a temporary expression are dropped after it.
Drop(st, e) == Bind(e, LAMBDA s : [s EXCEPT !.agents = SubSeq(s.agents, 1, Len(st.agents))])

\* sliceagent(a)[i:].reverse(): the suffix taken one element too early.
ReverseSuffixFromI(st, a, i) ==
    Drop(st, Then(NewAgent(st, a, FullSlice), LAMBDA whole :
             Then(GetSlice(whole, whole.ret, Slice(Some(i), None, None)),
                  LAMBDA suffix : Reverse(suffix, suffix.ret))))

\* sliceagent(a)[i+1:].reverse()
ReverseSuffix(st, a, i) ==
    Drop(st, Then(NewAgent(st, a, FullSlice), LAMBDA whole :
             Then(GetSlice(whole, whole.ret, Slice(Some(i + 1), None, None)),
                  LAMBDA suffix : Reverse(suffix, suffix.ret))))

\* next_permutation(a): the heap it leaves, with the value it returns.
NextPermutation(st, a) ==
    With(st, LenOf(st, a), LAMBDA n :
    With(st, ScanAscent(st, a, n - 2), LAMBDA i :
        IF i < 0 THEN Return(st, FALSE)
        ELSE With(st, ScanGreater(st, a, i, n - 1), LAMBDA j :
             Then(Swap(st, a, i, j), LAMBDA s1 :
             Then(ReverseSuffix(s1, a, i), LAMBDA s2 : Return(s2, TRUE))))))

RECURSIVE SiftDownLoop(_, _, _, _, _)
\* The while loop of _siftdown and the heap[pos] = newitem that follows it.
SiftDownLoop(st, heap, startpos, pos, newitem) ==
    IF pos > startpos
    THEN With(st, GetItem(st, heap, (pos - 1) \div 2), LAMBDA parent :
              IF newitem < parent
              THEN Then(SetItem(st, heap, pos, parent), LAMBDA s1 :
                        SiftDownLoop(s1, heap, startpos, (pos - 1) \div 2, newitem))
              ELSE SetItem(st, heap, pos, newitem))
    ELSE SetItem(st, heap, pos, newitem)

\* _siftdown(heap, startpos, pos)
SiftDown(st, heap, startpos, pos) ==
    With(st, GetItem(st, heap, pos), LAMBDA newitem :
         SiftDownLoop(st, heap, startpos, pos, newitem))

\* The index of the smaller child: rightpos when there is one and
\* not heap[childpos] < heap[rightpos], else childpos.
SmallerChild(st, heap, endpos, childpos) ==
    IF childpos + 1 < endpos
    THEN Via(GetItem(st, heap, childpos), LAMBDA left :
         Via(GetItem(st, heap, childpos + 1), LAMBDA right :
             Value(IF ~(left < right) THEN childpos + 1 ELSE childpos)))
    ELSE Value(childpos)

RECURSIVE SiftUpLoop(_, _, _, _, _, _, _)
\* The while loop of _siftup, and the heap[pos] = newitem and the
\* _siftdown(heap, startpos, pos) that follow it.
SiftUpLoop(st, heap, endpos, startpos, pos, childpos, newitem) ==
    IF childpos < endpos
    THEN With(st, SmallerChild(st, heap, endpos, childpos), LAMBDA child :
         With(st, GetItem(st, heap, child), LAMBDA moved :
         Then(SetItem(st, heap, pos, moved), LAMBDA s1 :
              SiftUpLoop(s1, heap, endpos, startpos, child, 2 * child + 1,
                         newitem))))
    ELSE Then(SetItem(st, heap, pos, newitem), LAMBDA s1 :
              SiftDown(s1, heap, startpos, pos))

\* _siftup(heap, pos)
SiftUp(st, heap, pos) ==
    With(st, LenOf(st, heap), LAMBDA endpos :
    With(st, GetItem(st, heap, pos), LAMBDA newitem :
         SiftUpLoop(st, heap, endpos, pos, pos, 2 * pos + 1, newitem)))

RECURSIVE HeapifyFrom(_, _, _)
\* for i in reversed(xrange(n//2)): _siftup(x, i), from i down to 0.
HeapifyFrom(st, heap, i) ==
    IF i < 0 THEN st
    ELSE Then(SiftUp(st, heap, i), LAMBDA s1 : HeapifyFrom(s1, heap, i - 1))

\* heapify(x)
Heapify(st, heap) ==
    With(st, LenOf(st, heap), LAMBDA n : HeapifyFrom(st, heap, (n \div 2) - 1))

\* heappushpop(heap, item): the heap it leaves, with the item it returns.
HeapPushPop(st, heap, item) ==
    With(st, LenOf(st, heap), LAMBDA n :
        IF n = 0 THEN Return(st, item)
        ELSE With(st, GetItem(st, heap, 0), LAMBDA top :
             IF top < item
             THEN Then(SetItem(st, heap, 0, item), LAMBDA s1 :
                  Then(SiftUp(s1, heap, 0), LAMBDA s2 : Return(s2, top)))
             ELSE Return(st, item)))

RECURSIVE SelectFrom(_, _, _, _, _)
\* The loop of partial_sort over the elements of x, from i on.
SelectFrom(st, xa, ya, i, n) ==
    IF i >= n THEN st
    ELSE With(st, GetItem(st, xa, i), LAMBDA xi :
         With(st, GetItem(st, ya, 0), LAMBDA y0 :
              IF xi > y0
              THEN Then(HeapPushPop(st, ya, xi), LAMBDA s1 :
                   Then(SetItem(s1, xa, i, s1.ret), LAMBDA s2 :
                        SelectFrom(s2, xa, ya, i + 1, n)))
              ELSE SelectFrom(st, xa, ya, i + 1, n)))

\* partial_sort(x, y), x and y agents.
PartialSort(st, xa, ya) ==
    Then(Heapify(st, ya), LAMBDA s1 :
    With(s1, LenOf(s1, xa), LAMBDA n :
    Then(SelectFrom(s1, xa, ya, 0, n), LAMBDA s2 : Sort(s2, xa))))

----------------------------------------------------------------------------
(* The record of the last operation. *)

\* op: the operation; agent, idx, val: the agent it was called on and its
\* arguments; exc: the exception it raised; ret: <<value>> when it returned one.
Op(op, agent, idx, exc) ==
    [op |-> op, agent |-> agent, idx |-> idx, val |-> 0, exc |-> exc,
     ret |-> <<>>, key |-> FullSlice, src |-> 0, items |-> <<>>]

NoOp == Op("none", 0, 0, OK)

----------------------------------------------------------------------------
(* Alignment: a view constructed over a list, the list growing behind its  *)
(* back, and align().                                                      *)

AlignKeys ==
    {Slice(a, b, c) : a \in Opt(-AlignIdx..AlignIdx),
                      b \in Opt(-AlignIdx..AlignIdx),
                      c \in Opt((-AlignStep..AlignStep) \ {0})}

InitAlign ==
    /\ x \in {[i \in 1..m |-> i - 1] : m \in 0..AlignLen}
    /\ agents = <<>>
    /\ last = NoOp
    /\ count = 0

\* a = sliceagent(x, key)
Construct ==
    /\ agents = <<>>
    /\ \E key \in AlignKeys :
         \E st \in {NewAgent(State(x, <<>>, OK), 0, key)} :
             /\ agents' = st.agents
             /\ last' = Op("init", 1, 0, st.exc)
             /\ UNCHANGED <<x, count>>

\* x += [v]
Extend ==
    /\ Len(x) < AlignLen
    /\ x' = Append(x, Len(x))
    /\ last' = Op("extend", 0, 0, OK)
    /\ UNCHANGED <<agents, count>>

\* a.align()
Realign ==
    \E k \in DOMAIN agents :
        \E st \in {Align(State(x, agents, OK), k)} :
            /\ agents' = st.agents
            /\ last' = Op("align", k, 0, st.exc)
            /\ UNCHANGED <<x, count>>

NextAlign == Construct \/ Extend \/ Realign

SpecAlign == InitAlign /\ [][NextAlign]_vars

\* The positions a reference strided slice of a length-L sequence selects:
\* start, start+step, ... strictly before stop in the direction of step.
RefPositions(s, L) ==
    LET t == SliceIndices(s, L)
    IN  {p \in 0..(L - 1) :
            /\ (p - t.start) % Abs(t.step) = 0
            /\ IF t.step > 0 THEN t.start <= p /\ p < t.stop
                             ELSE t.stop < p /\ p <= t.start}

\* C1: a freshly aligned view reports the number of elements of the
\* reference strided slice of its range, and never a negative length.
C1_LengthIsReferenceLength ==
    \A k \in DOMAIN agents :
        (last.op \in {"init", "align"} /\ last.agent = k) =>
            /\ agents[k].n = Cardinality(RefPositions(agents[k].slice, Len(x)))
            /\ agents[k].n >= 0

----------------------------------------------------------------------------
(* One view of a list, read and edited through the view only.              *)

Lists(maxLen, V) == UNION {[1..m -> V] : m \in 0..maxLen}

ItemKeys ==
    {Slice(a, b, c) : a \in Opt(-ItemIdx..ItemIdx),
                      b \in Opt(-ItemIdx..ItemIdx),
                      c \in Opt((-ItemStep..ItemStep) \ {0})}

ItemIndexes == (-(ItemLen + 1))..(ItemLen + 1)

InitItem ==
    /\ x \in Lists(ItemLen, 0..ItemVal)
    /\ \E key \in ItemKeys : agents = NewAgent(State(x, <<>>, OK), 0, key).agents
    /\ last = Op("init", 1, 0, OK)
    /\ count = 0

\* a[i]
Get ==
    \E k \in DOMAIN agents, i \in ItemIndexes :
        \E r \in {GetItem(State(x, agents, OK), k, i)} :
            /\ last' = [Op("get", k, i, r.exc) EXCEPT
                            !.ret = IF r.exc = OK THEN <<r.val>> ELSE <<>>]
            /\ UNCHANGED <<x, agents, count>>

\* a[i] = v
Set ==
    \E k \in DOMAIN agents, i \in ItemIndexes, v \in 0..ItemVal :
        \E st \in {SetItem(State(x, agents, OK), k, i, v)} :
            /\ x' = st.x
            /\ agents' = st.agents
            /\ last' = [Op("set", k, i, st.exc) EXCEPT !.val = v]
            /\ count' = count

\* del a[i]
Delete ==
    \E k \in DOMAIN agents, i \in ItemIndexes :
        \E st \in {DelItem(State(x, agents, OK), k, i)} :
            /\ x' = st.x
            /\ agents' = st.agents
            /\ last' = Op("del", k, i, st.exc)
            /\ count' = count

\* a.insert(i, v)
Insert ==
    /\ Len(x) < ItemLen
    /\ \E k \in DOMAIN agents, i \in ItemIndexes, v \in 0..ItemVal :
         \E st \in {InsertItem(State(x, agents, OK), k, i, v)} :
             /\ x' = st.x
             /\ agents' = st.agents
             /\ last' = [Op("insert", k, i, st.exc) EXCEPT !.val = v]
             /\ count' = count

NextItem == Get \/ Set \/ Delete \/ Insert

SpecItem == InitItem /\ [][NextItem]_vars

\* The elements of the reference strided slice xs[s], in order.
RefSlice(xs, s) ==
    LET t == SliceIndices(s, Len(xs))
        c == Cardinality(RefPositions(s, Len(xs)))
    IN  [j \in 1..c |-> xs[t.start + (j - 1) * t.step + 1]]

\* The view reads as the reference strided slice of the list.
ReadsAsReference(xs, ags, k) ==
    Iterate(State(xs, ags, OK), k) = Value(RefSlice(xs, ags[k].slice))

\* The physical index the view's logical index i stands for: the translator
\* applied to i taken modulo the view's length.
Physical(a, i) == a.translate.start + (i % a.n) * a.translate.step

ValidIndex(a, i) == -a.n <= i /\ i < a.n

\* C2: for i in [-n, n), get(i) returns and set(i, v) overwrites exactly the
\* origin element at physical index start + (i mod n) * step, and set
\* changes no other element (stated for a view that reads as the reference
\* slice, so that a wrong length is not what breaks it).
C2_GetSetAtTranslatedIndex ==
    [][\A k \in DOMAIN agents :
        (/\ last'.agent = k
         /\ ValidIndex(agents[k], last'.idx)
         /\ ReadsAsReference(x, agents, k)) =>
            LET p == Physical(agents[k], last'.idx)
            IN  /\ last'.op = "get" =>
                    /\ last'.exc = OK
                    /\ InList(x, p)
                    /\ last'.ret = <<x[p + 1]>>
                /\ last'.op = "set" =>
                    /\ last'.exc = OK
                    /\ InList(x, p)
                    /\ x' = [x EXCEPT ![p + 1] = last'.val]]_vars

\* C3: for i outside [-n, n), get(i), set(i, v) and delete(i) fail with
\* IndexError and leave the list and the view's length unchanged (stated
\* for a view that reads as the reference slice).
C3_OutOfRangeIsIndexError ==
    [][\A k \in DOMAIN agents :
        (/\ last'.agent = k
         /\ last'.op \in {"get", "set", "del"}
         /\ ~ValidIndex(agents[k], last'.idx)
         /\ ReadsAsReference(x, agents, k)) =>
            /\ last'.exc = IndexError
            /\ x' = x
            /\ agents'[k].n = agents[k].n]_vars

\* C9: after a delete(i) or insert(i, v) through the view (0 <= i < n), the
\* view's length and translator are those of its slice normalized against
\* the current length of the list, and iterating it yields the reference
\* strided slice of the current list.
C9_SelfHealing ==
    [][\A k \in DOMAIN agents :
        (/\ last'.agent = k
         /\ last'.op \in {"del", "insert"}
         /\ 0 <= last'.idx /\ last'.idx < agents[k].n
         /\ ReadsAsReference(x, agents, k)) =>
            /\ agents'[k] = Aligned(0, agents[k].slice, Len(x'))
            /\ ReadsAsReference(x', agents', k)]_vars

----------------------------------------------------------------------------
(* Slice assignment: agents sliced from a full-range agent, and values     *)
(* assigned to a range of an agent from a list or from another agent.      *)

\* [::-1], [1:], [::2] and the full slice.
AssignKeys ==
    {FullSlice,
     Slice(None, None, Some(-1)),
     Slice(Some(1), None, None),
     Slice(None, None, Some(2))}

\* The ranges assigned to: [:] and [0:1].
AssignRanges == {FullSlice, Slice(Some(0), Some(1), None)}

\* The lists assigned: m copies of one value.
AssignItems ==
    {[i \in 1..m |-> v] : m \in 0..(AssignLen + 1), v \in 0..AssignVal}

InitAssign ==
    /\ x \in Lists(AssignLen, 0..AssignVal)
    /\ agents = NewAgent(State(x, <<>>, OK), 0, FullSlice).agents
    /\ last = Op("init", 1, 0, OK)
    /\ count = 0

\* b = a[key]
GetSliceOp ==
    /\ Len(agents) < AssignAgents
    /\ \E k \in DOMAIN agents, key \in AssignKeys :
         \E st \in {GetSlice(State(x, agents, OK), k, key)} :
             /\ agents' = st.agents
             /\ last' = [Op("getslice", k, 0, st.exc) EXCEPT
                             !.key = key, !.ret = <<st.ret>>]
             /\ UNCHANGED <<x, count>>

\* a[key] = items
SetSliceList ==
    \E k \in DOMAIN agents, key \in AssignRanges, items \in AssignItems :
        \E st \in {SetSlice(State(x, agents, OK), k, key, 0, items)} :
            /\ x' = st.x
            /\ agents' = st.agents
            /\ last' = [Op("setslice", k, 0, st.exc) EXCEPT
                            !.key = key, !.items = items]
            /\ count' = count

\* a[key] = b
SetSliceAgent ==
    \E k \in DOMAIN agents, key \in AssignRanges, j \in DOMAIN agents :
        \E st \in {SetSlice(State(x, agents, OK), k, key, j, <<>>)} :
            /\ x' = st.x
            /\ agents' = st.agents
            /\ last' = [Op("setslice", k, 0, st.exc) EXCEPT !.key = key, !.src = j]
            /\ count' = count

NextAssign == GetSliceOp \/ SetSliceList \/ SetSliceAgent

SpecAssign == InitAssign /\ [][NextAssign]_vars

\* C4: assigning values to a logical range of a view fails with the
\* length-mismatch error whenever the number of values differs from the
\* length of the range, with fewer values and with more.
C4_LengthMismatchRaises ==
    [][\A k \in DOMAIN agents :
        (/\ last'.op = "setslice"
         /\ last'.agent = k
         /\ last'.src = 0
         /\ agents[k].n >= 0
         /\ Len(last'.items) #
              Cardinality(RefPositions(last'.key, agents[k].n))) =>
            last'.exc = LengthMismatch]_vars

\* C5: for two views of equal length, overlapping or not, after
\* view[:] = view2 the view reads back the elements view2 had when the
\* assignment started.
C5_AssignRoundTrip ==
    [][\A k \in DOMAIN agents, j \in DOMAIN agents :
        (/\ last'.op = "setslice"
         /\ last'.agent = k
         /\ last'.src = j
         /\ last'.key = FullSlice
         /\ agents[k].n = agents[j].n
         /\ Iterate(State(x, agents, OK), k).exc = OK
         /\ Iterate(State(x, agents, OK), j).exc = OK) =>
            /\ last'.exc = OK
            /\ Iterate(State(x', agents', OK), k)
                 = Iterate(State(x, agents, OK), j)]_vars

----------------------------------------------------------------------------
(* Several views of one list: a full-range agent a, b = a[k1] and          *)
(* c = a[k2] or c = b[k2]; edits through any of them, and align().         *)

\* [1:], [::2] and [::-1]
ShareKeys ==
    {Slice(Some(1), None, None),
     Slice(None, None, Some(2)),
     Slice(None, None, Some(-1))}

InitShared ==
    /\ x \in {[i \in 1..m |-> 0] : m \in 0..ShareLen}
    /\ \E k1 \in ShareKeys, k2 \in ShareKeys, parent \in {1, 2} :
         \E a \in {NewAgent(State(x, <<>>, OK), 0, FullSlice)} :
         \E b \in {GetSlice(a, 1, k1)} :
         \E c \in {GetSlice(b, parent, k2)} :
            /\ c.exc = OK
            /\ agents = c.agents
    /\ last = Op("init", 1, 0, OK)
    /\ count = 0

\* del v[i], v any of the views
DeleteThrough ==
    \E k \in DOMAIN agents, i \in 0..ShareIdx :
        \E st \in {DelItem(State(x, agents, OK), k, i)} :
            /\ x' = st.x
            /\ agents' = st.agents
            /\ last' = Op("del", k, i, st.exc)
            /\ count' = count

\* v.insert(i, 0), v any of the views
InsertThrough ==
    /\ Len(x) < ShareLen
    /\ \E k \in DOMAIN agents, i \in 0..ShareIdx :
         \E st \in {InsertItem(State(x, agents, OK), k, i, 0)} :
             /\ x' = st.x
             /\ agents' = st.agents
             /\ last' = Op("insert", k, i, st.exc)
             /\ count' = count

NextShared == DeleteThrough \/ InsertThrough \/ Realign

SpecShared == InitShared /\ [][NextShared]_vars

RECURSIVE Chain(_, _)
\* The agent k and the agents it is nested in.
Chain(ags, k) == IF k = 0 THEN {} ELSE {k} \cup Chain(ags, ags[k].origin)

\* The agent j is what align() makes of it now.
IsAligned(xs, ags, j) ==
    LET L == LenOf(State(xs, ags, OK), ags[j].origin)
    IN  L.exc = OK /\ ags[j] = Aligned(ags[j].origin, ags[j].slice, L.val)

\* C10 as stated: after an insert or delete through one view changed the
\* length of the list, every view of the list is aligned to the new length.
C10_EveryViewRealigned ==
    [][(last'.op \in {"del", "insert"} /\ Len(x') # Len(x)) =>
        \A j \in DOMAIN agents : IsAligned(x', agents', j)]_vars

\* C10 amended: after an insert or delete through one view changed the
\* length of the list, the views other than the editing view and the views
\* it is nested in are left exactly as they were (stale until align() is
\* called on them); the editing view and the views it is nested in are
\* aligned to the new length when the edit raised nothing.
C10_OnlyEditingViewRealigned ==
    [][(last'.op \in {"del", "insert"} /\ Len(x') # Len(x)) =>
        \A j \in DOMAIN agents :
            IF j \in Chain(agents, last'.agent)
            THEN last'.exc = OK => IsAligned(x', agents', j)
            ELSE agents'[j] = agents[j]]_vars

\* An edit through b changed the length of the list: b is aligned to the new
\* length and the full-range agent a, which b was sliced from, is not.
C10_Witness ==
    /\ last.op \in {"del", "insert"}
    /\ last.agent = 2
    /\ last.exc = OK
    /\ Len(agents) = 3
    /\ IsAligned(x, agents, 2)
    /\ agents[1].n # Len(x)
    /\ ~IsAligned(x, agents, 3)

----------------------------------------------------------------------------
(* Sorting: a full-range agent a, b = a[k1] and c = b[k2], each sorted in  *)
(* place.                                                                  *)

\* [1:], [:-1], [::2], [1::2], [::-1], [::-2]
SortKeys ==
    {Slice(Some(1), None, None),
     Slice(None, Some(-1), None),
     Slice(None, None, Some(2)),
     Slice(Some(1), None, Some(2)),
     Slice(None, None, Some(-1)),
     Slice(None, None, Some(-2))}

\* [::-1], [1:]
NestedSortKeys == {Slice(None, None, Some(-1)), Slice(Some(1), None, None)}

InitSort ==
    /\ x \in Lists(SortLen, 0..SortVal)
    /\ \E k1 \in SortKeys, k2 \in NestedSortKeys :
         \E a \in {NewAgent(State(x, <<>>, OK), 0, FullSlice)} :
         \E b \in {GetSlice(a, 1, k1)} :
         \E c \in {GetSlice(b, 2, k2)} :
            /\ c.exc = OK
            /\ agents = c.agents
    /\ last = Op("init", 1, 0, OK)
    /\ count = 0

\* v.sort(), v any of the views
SortOp ==
    \E k \in DOMAIN agents :
        \E st \in {Sort(State(x, agents, OK), k)} :
            /\ x' = st.x
            /\ agents' = st.agents
            /\ last' = Op("sort", k, 0, st.exc)
            /\ count' = count

NextSort == SortOp

SpecSort == InitSort /\ [][NextSort]_vars

\* The elements at the view's logical positions 0..n-1, or <<>> for a view
\* that has none (n <= 0) or whose positions cannot be read.
Elements(xs, ags, k) ==
    LET r == Iterate(State(xs, ags, OK), k)
    IN  IF r.exc = OK THEN r.val ELSE <<>>

NonDecreasing(seq) == \A i \in 1..(Len(seq) - 1) : seq[i] <= seq[i + 1]

\* The multiset of the elements of a sequence.
BagOf(seq) == [v \in {seq[i] : i \in DOMAIN seq} |->
                  Cardinality({i \in DOMAIN seq : seq[i] = v})]

\* C6: after sort() the elements at the view's logical positions are
\* non-decreasing and are a permutation of the elements the view held
\* before the call.
C6_SortSortsThePermutation ==
    [][\A k \in DOMAIN agents :
        (last'.op = "sort" /\ last'.agent = k) =>
            \A before \in {Elements(x, agents, k)} :
            \A after \in {Elements(x', agents', k)} :
                /\ agents' = agents
                /\ Len(after) = Len(before)
                /\ NonDecreasing(after)
                /\ BagOf(after) = BagOf(before)]_vars

\* A sort through b, a view of at least four elements with a negative step
\* over a list with equal elements: b now reads in order, the list does not.
C6_Witness ==
    /\ last.op = "sort"
    /\ last.exc = OK
    /\ last.agent = 2
    /\ agents[2].n >= 4
    /\ agents[2].translate.step < 0
    /\ \E i \in 1..Len(x) : \E j \in 1..Len(x) : i # j /\ x[i] = x[j]
    /\ NonDecreasing(Elements(x, agents, 2))
    /\ ~NonDecreasing(Elements(x, agents, 1))

----------------------------------------------------------------------------
(* next_permutation called again and again on the ascending arrangement   *)
(* of n distinct elements, on the list or through a full-range agent.      *)

InitPerm ==
    /\ x \in {[i \in 1..n |-> i] : n \in 0..PermLen}
    /\ agents = NewAgent(State(x, <<>>, OK), 0, FullSlice).agents
    /\ last = Op("init", 0, 0, OK)
    /\ count = 0

\* next_permutation(a), a the list or the agent; count counts the calls
\* that returned True.
NextPermutationOp ==
    \E a \in {0} \cup DOMAIN agents :
        \E st \in {NextPermutation(State(x, agents, OK), a)} :
            /\ x' = st.x
            /\ agents' = st.agents
            /\ last' = [Op("next_permutation", a, 0, st.exc) EXCEPT
                            !.ret = IF st.exc = OK THEN <<st.ret>> ELSE <<>>]
            /\ count' = IF st.exc = OK /\ st.ret THEN count + 1 ELSE count

NextPerm == NextPermutationOp

SpecPerm == InitPerm /\ [][NextPerm]_vars

RECURSIVE Factorial(_)
Factorial(n) == IF n <= 0 THEN 1 ELSE n * Factorial(n - 1)

\* p comes before q in lexicographic order (p and q of equal length).
LexLess(p, q) ==
    \E i \in 1..Len(p) :
        /\ p[i] < q[i]
        /\ \A j \in 1..(i - 1) : p[j] = q[j]

IsPermutation(p) == \A v \in 1..Len(p) : \E i \in 1..Len(p) : p[i] = v

\* The number of permutations of 1..Len(p) that come before p in
\* lexicographic order: at each position, the smaller elements still to
\* come, times the arrangements of the rest.
LexRank(p) ==
    LET n == Len(p)
        smallerAfter(i) == Cardinality({j \in (i + 1)..n : p[j] < p[i]})
        term[i \in 0..n] ==
            IF i = 0 THEN 0
            ELSE term[i - 1] + smallerAfter(i) * Factorial(n - i)
    IN  term[n]

Descending(p) == \A i \in 1..(Len(p) - 1) : p[i] > p[i + 1]

\* The list is a permutation, and the calls that returned True so far
\* number exactly the permutations before it in lexicographic order.
RankIsCount ==
    /\ IsPermutation(x)
    /\ count = LexRank(x)
    /\ last.op = "next_permutation" => last.exc = OK

\* A call returns False on the descending arrangement, which it leaves as
\* it is, and True on every other, which it replaces by a greater one.
StepOrStop ==
    last'.op = "next_permutation" =>
        IF Descending(x)
        THEN last'.ret = <<FALSE>> /\ x' = x /\ count' = count
        ELSE last'.ret = <<TRUE>> /\ LexLess(x, x') /\ count' = count + 1

\* C7: from the ascending arrangement of n distinct elements, every call of
\* next_permutation returns True and steps to the immediately next
\* permutation in lexicographic order (the k-th such call leaves the
\* permutation of rank k, so all n! are visited, each once), and the call
\* on the descending arrangement returns False and changes nothing.
C7_VisitsAllInLexOrder == []RankIsCount /\ [][StepOrStop]_vars

\* The call on the descending arrangement of PermLen elements, after every
\* permutation before it was visited, returned False.
C7_Witness ==
    /\ Len(x) = PermLen
    /\ last.op = "next_permutation"
    /\ last.ret = <<FALSE>>
    /\ Descending(x)
    /\ count = Factorial(PermLen) - 1

----------------------------------------------------------------------------
(* partial_sort on two disjoint views of one list: front = a[:m:step] and  *)
(* back = a[m::step], a the full-range agent.                              *)

InitPartial ==
    /\ x \in Lists(PartLen, 0..PartVal)
    /\ \E m \in 0..Len(x), step \in 1..PartStep :
         \E a \in {NewAgent(State(x, <<>>, OK), 0, FullSlice)} :
         \E f \in {GetSlice(a, 1, Slice(None, Some(m), Some(step)))} :
         \E b \in {GetSlice(f, 1, Slice(Some(m), None, Some(step)))} :
            agents = b.agents
    /\ last = Op("init", 1, 0, OK)
    /\ count = 0

\* partial_sort(front, back)
PartialSortOp ==
    /\ last.op = "init"
    /\ \E st \in {PartialSort(State(x, agents, OK), 2, 3)} :
           /\ x' = st.x
           /\ agents' = st.agents
           /\ last' = Op("partial_sort", 2, 0, st.exc)
           /\ count' = count

NextPartial == PartialSortOp

SpecPartial == InitPartial /\ [][NextPartial]_vars

\* front holds the smallest elements of front and back, in ascending order,
\* and front and back together hold the elements fb0 they held before.
SmallestInFront(front, back, fb0) ==
    /\ NonDecreasing(front)
    /\ \A i \in DOMAIN front : \A j \in DOMAIN back : front[i] <= back[j]
    /\ BagOf(front \o back) = BagOf(fb0)

\* C8: for disjoint front and back of any sizes and any element values (both
\* reading as their reference slices), partial_sort(front, back) completes
\* without error, leaves in front the smallest elements of the two in
\* ascending order and in back the others.
C8_PartialSortSelects ==
    [][(/\ last'.op = "partial_sort"
        /\ ReadsAsReference(x, agents, 2)
        /\ ReadsAsReference(x, agents, 3)) =>
        /\ last'.exc = OK
        /\ agents' = agents
        /\ \A f0 \in {Elements(x, agents, 2)}, b0 \in {Elements(x, agents, 3)} :
           \A f1 \in {Elements(x', agents', 2)}, b1 \in {Elements(x', agents', 3)} :
              /\ Len(f1) = Len(f0)
              /\ Len(b1) = Len(b0)
              /\ SmallestInFront(f1, b1, f0 \o b0)]_vars

\* The same, for a back that is not empty.
PartialSortSelectsNonEmptyBack ==
    [][(/\ last'.op = "partial_sort"
        /\ ReadsAsReference(x, agents, 2)
        /\ ReadsAsReference(x, agents, 3)
        /\ agents[3].n > 0) =>
        /\ last'.exc = OK
        /\ agents' = agents
        /\ \A f0 \in {Elements(x, agents, 2)}, b0 \in {Elements(x, agents, 3)} :
           \A f1 \in {Elements(x', agents', 2)}, b1 \in {Elements(x', agents', 3)} :
              /\ Len(f1) = Len(f0)
              /\ Len(b1) = Len(b0)
              /\ SmallestInFront(f1, b1, f0 \o b0)]_vars

====
